---- MODULE Spec2Model ----
(***************************************************************************)
(* A model of dupfinder.py: filewalker(), hasher(), duplicates() and the   *)
(* three-pass pipeline dupfinder().                                        *)
(*                                                                         *)
(* Paths and exclusion strings are sequences of one-character strings,     *)
(* file contents are sequences of bytes.  A dict is kept in insertion      *)
(* order where the code iterates over it (duplicates / dups) and as a      *)
(* function where it does not (candidates).                                *)
(***************************************************************************)
EXTENDS Integers, Sequences, FiniteSets, TLC

\* ------------------------------------------------------------------ bounds
\* longest file content, in bytes
MaxLen == 2
\* largest prefix length a pass is given (the code: 4096 and 100*4096,
\* against files of any length; here files are short and so are prefixes)
MaxScan == 2
\* length of one chunk of the whole-file read (the code: 4096)
BlockSize == 1
\* longest argument list of a direct call of duplicates()
MaxIn == 4
\* most directories below the root of a walked tree
MaxDirs == 3

\* ------------------------------------------------------------------ values
\* two byte values are enough to make contents agree or differ at any offset
Byte == {0, 1}

RECURSIVE SeqsUpTo(_, _)
SeqsUpTo(S, n) ==
    IF n = 0 THEN {<<>>}
    ELSE LET shorter == SeqsUpTo(S, n - 1)
         IN  shorter \cup {Append(s, e) : s \in {t \in shorter : Len(t) = n - 1}, e \in S}

Contents == SeqsUpTo(Byte, MaxLen)

Min(a, b) == IF a < b THEN a ELSE b

Range(s) == {s[k] : k \in DOMAIN s}

Perms(S) == {s \in [1..Cardinality(S) -> S] : \A a, b \in DOMAIN s : s[a] = s[b] => a = b}

\* ------------------------------------------------------------------ hashlib
\* sha256 as a collision-free digest: the bytes fed so far, folded into one
\* number (bijective numeration in base Cardinality(Byte) + 1), so that feeding a
\* string in chunks and feeding it at once give the same digest, and two
\* different strings never do.
Sha256New == 0

RECURSIVE Sha256Update(_, _)
Sha256Update(h, data) ==
    IF data = <<>> THEN h
    ELSE Sha256Update(h * (Cardinality(Byte) + 1) + Head(data) + 1, Tail(data))

Hexdigest(h) == h

sha256(data) == Sha256Update(Sha256New, data)

\* ------------------------------------------------------------------ os.path
Sep == "/"

\* os.path.join(dirpath, f)
Join(dirpath, f) ==
    IF dirpath # <<>> /\ dirpath[Len(dirpath)] = Sep THEN dirpath \o f
    ELSE dirpath \o <<Sep>> \o f

\* e in dirpath, on strings
Contains(e, s) ==
    \E k \in 0..(Len(s) - Len(e)) : SubSeq(s, k + 1, k + Len(e)) = e

VARIABLES
    \* the file system, and the arguments of the run
    fsDirs,       \* directory path -> [subdirs, files]: the names os.walk lists
    fsRegular,    \* the file paths os.path.isfile() accepts
    fsContent,    \* file path -> bytes
    path,         \* dupfinder(path, ...)
    exclude,      \* dupfinder(..., exclude): the exclusion strings
    SCANSIZE,     \* prefix length of the first pass
    pass2size,    \* prefix length of the second pass (100*SCANSIZE)
    \* dupfinder()
    pc,           \* where the run is
    pass,         \* the pass under way: 0 (none yet), 1, 2, 3
    dups,         \* dupfinder's  dups
    result,       \* the value dupfinder() returned
    \* filewalker()
    walkStack,    \* the directories os.walk has still to visit
    yielded,      \* the paths filewalker has yielded
    \* duplicates() and the hasher() generator it drives
    files,        \* the argument tuple
    scansize,     \* the scansize argument
    i,            \* hasher's position in files
    handles,      \* the open file handles
    pos,          \* read offset of the open file
    xx,           \* the running hash of the whole-file read
    x,            \* the digest hasher yields
    candidates,   \* digest -> first path seen
    duplicates    \* digest -> paths, in insertion order: <<[hash, files]>>

fsVars == <<fsDirs, fsRegular, fsContent, path, exclude, SCANSIZE, pass2size>>
walkVars == <<walkStack, yielded>>
hashVars == <<i, handles, pos, xx, x>>
groupVars == <<candidates, duplicates>>
vars == <<fsDirs, fsRegular, fsContent, path, exclude, SCANSIZE, pass2size,
          pc, pass, dups, result, walkStack, yielded,
          files, scansize, i, handles, pos, xx, x, candidates, duplicates>>

\* ------------------------------------------------------------------ filewalker
\* the last component of a directory path
Basename(dirpath) ==
    LET seps == {k \in DOMAIN dirpath : dirpath[k] = Sep}
        last == IF seps = {} THEN 0 ELSE CHOOSE k \in seps : \A l \in seps : l <= k
    IN  SubSeq(dirpath, last + 1, Len(dirpath))

\* a variant that tests the directory's own name, not its path
ExcludedByName(dirpath, excl) ==
    excl # {} /\ \E e \in excl : Contains(e, Basename(dirpath))

\* exclude and any(e in dirpath for e in exclude)
Excluded(dirpath, excl) ==
    excl # {} /\ \E e \in excl : Contains(e, dirpath)

\* for f in filenames: fpath = join(dirpath, f); skip unless isfile(fpath)
RECURSIVE YieldFiles(_, _)
YieldFiles(dirpath, filenames) ==
    IF filenames = <<>> THEN <<>>
    ELSE LET fpath == Join(dirpath, Head(filenames))
             rest  == YieldFiles(dirpath, Tail(filenames))
         IN  IF fpath \notin fsRegular THEN rest ELSE <<fpath>> \o rest

\* one directory of os.walk: what the loop body yields for it
WalkYield(dirpath, filenames) ==
    IF Excluded(dirpath, exclude) THEN <<>> ELSE YieldFiles(dirpath, filenames)

\* files = filewalker(path, exclude=exclude): os.walk starts at path
FilewalkerStart ==
    /\ pc = "start"
    /\ pc' = "walk"
    /\ walkStack' = <<path>>
    /\ yielded' = <<>>
    /\ UNCHANGED <<fsVars, pass, dups, result, files, scansize, hashVars, groupVars>>

\* one iteration of  for dirpath, dirnames, filenames in os.walk(path).
\* os.walk lists the directory in the order the file system gives, and
\* descends into every subdirectory, excluded or not (dirnames is not pruned).
FilewalkerDir ==
    /\ pc = "walk"
    /\ walkStack # <<>>
    /\ LET dirpath == Head(walkStack)
       IN  \E dirnames \in Perms(fsDirs[dirpath].subdirs),
              filenames \in Perms(fsDirs[dirpath].files) :
             /\ walkStack' = [k \in 1..Len(dirnames) |-> Join(dirpath, dirnames[k])]
                                \o Tail(walkStack)
             /\ yielded' = yielded \o WalkYield(dirpath, filenames)
    /\ UNCHANGED <<fsVars, pc, pass, dups, result, files, scansize, hashVars, groupVars>>

\* ------------------------------------------------------------------ dicts
EmptyDict == [h \in {} |-> <<>>]

Keys(d) == {d[k].hash : k \in DOMAIN d}

\* (file for files in dups.values() for file in files)
RECURSIVE Flatten(_)
Flatten(d) == IF d = <<>> THEN <<>> ELSE Head(d).files \o Flatten(Tail(d))

\* ------------------------------------------------------------------ hasher
\* a variant that reads to the end of the file whatever n is
ReadAll(content, p, n) == SubSeq(content, p + 1, Len(content))

\* file.read(n) at offset p
Read(content, p, n) == SubSeq(content, p + 1, Min(p + n, Len(content)))

\* open(filename, 'rb')
Open(hs, filename) == hs \cup {filename}

\* a variant that leaves the file open
WithExitOpen(hs, filename) == hs

\* leaving the with block, by its end or by an exception
WithExit(hs, filename) == hs \ {filename}

\* for filename in files: with open(filename, 'rb') as file
HasherOpen ==
    /\ pc = "for"
    /\ i <= Len(files)
    /\ files[i] \in DOMAIN fsContent
    /\ handles' = Open(handles, files[i])
    /\ pos' = 0
    /\ pc' = "opened"
    /\ UNCHANGED <<fsVars, pass, dups, result, walkVars, files, scansize, i, xx, x, groupVars>>

\* open() raises: nothing catches it in hasher, duplicates or dupfinder
HasherOpenFails ==
    /\ pc = "for"
    /\ i <= Len(files)
    /\ pc' = "open raised"
    /\ UNCHANGED <<fsVars, pass, dups, result, walkVars, files, scansize, hashVars, groupVars>>

\* if scansize: d = file.read(scansize); x = hashfunc(d).hexdigest()
HasherReadPrefix ==
    /\ pc = "opened"
    /\ scansize # 0
    /\ LET d == Read(fsContent[files[i]], pos, scansize)
       IN  /\ x' = Hexdigest(sha256(d))
           /\ pos' = pos + Len(d)
    /\ pc' = "exit"
    /\ UNCHANGED <<fsVars, pass, dups, result, walkVars, files, scansize, i, handles, xx, groupVars>>

\* else: xx = hashfunc()
HasherNewHash ==
    /\ pc = "opened"
    /\ scansize = 0
    /\ xx' = Sha256New
    /\ pc' = "chunks"
    /\ UNCHANGED <<fsVars, pass, dups, result, walkVars, files, scansize, i, handles, pos, x, groupVars>>

\* for byte_block in iter(lambda: file.read(4096), b""): xx.update(byte_block)
HasherReadBlock ==
    /\ pc = "chunks"
    /\ LET byte_block == Read(fsContent[files[i]], pos, BlockSize)
       IN  /\ byte_block # <<>>
           /\ xx' = Sha256Update(xx, byte_block)
           /\ pos' = pos + Len(byte_block)
    /\ UNCHANGED <<fsVars, pc, pass, dups, result, walkVars, files, scansize, i, handles, x, groupVars>>

\* the read that returns b"" ends the loop: x = xx.hexdigest()
HasherLastBlock ==
    /\ pc = "chunks"
    /\ Read(fsContent[files[i]], pos, BlockSize) = <<>>
    /\ x' = Hexdigest(xx)
    /\ pc' = "exit"
    /\ UNCHANGED <<fsVars, pass, dups, result, walkVars, files, scansize, i, handles, pos, xx, groupVars>>

\* file.read() raises: the with statement closes the file, and the exception
\* leaves hasher, duplicates and dupfinder
HasherReadFails ==
    /\ pc \in {"opened", "chunks"}
    /\ handles' = WithExit(handles, files[i])
    /\ pc' = "read raised"
    /\ UNCHANGED <<fsVars, pass, dups, result, walkVars, files, scansize, i, pos, xx, x, groupVars>>

\* the end of the with block
HasherClose ==
    /\ pc = "exit"
    /\ handles' = WithExit(handles, files[i])
    /\ pc' = "yield"
    /\ UNCHANGED <<fsVars, pass, dups, result, walkVars, files, scansize, i, pos, xx, x, groupVars>>

\* ------------------------------------------------------------------ duplicates
\* a variant that puts the new path at the front of the group
AppendToFront(d, hash, filename) ==
    [k \in DOMAIN d |->
        IF d[k].hash = hash THEN [hash |-> hash, files |-> <<filename>> \o d[k].files]
        ELSE d[k]]

\* duplicates[hash].append(filename)
AppendTo(d, hash, filename) ==
    [k \in DOMAIN d |->
        IF d[k].hash = hash THEN [hash |-> hash, files |-> Append(d[k].files, filename)]
        ELSE d[k]]

\* a variant that leaves the stored candidate out of the new group
NewGroupAlone(c, d, hash, filename) ==
    Append(d, [hash |-> hash, files |-> <<filename>>])

\* duplicates[hash] = [candidates[hash], filename]
NewGroup(c, d, hash, filename) ==
    Append(d, [hash |-> hash, files |-> <<c[hash], filename>>])

\* a variant that remembers the last lone file only
GroupCandidatesLast(c, d, hash, filename) ==
    IF hash \in Keys(d) THEN c
    ELSE IF hash \in DOMAIN c THEN c
    ELSE [h \in {hash} |-> filename]

\* a variant that drops the candidate once its group is made
GroupCandidatesPop(c, d, hash, filename) ==
    IF hash \in Keys(d) THEN c
    ELSE IF hash \in DOMAIN c THEN [h \in DOMAIN c \ {hash} |-> c[h]]
    ELSE [h \in DOMAIN c \cup {hash} |-> IF h = hash THEN filename ELSE c[h]]

\* candidates after the loop body; only the else branch writes it
GroupCandidates(c, d, hash, filename) ==
    IF hash \in Keys(d) THEN c
    ELSE IF hash \in DOMAIN c THEN c
    ELSE [h \in DOMAIN c \cup {hash} |-> IF h = hash THEN filename ELSE c[h]]

\* duplicates after the loop body
GroupDuplicates(c, d, hash, filename) ==
    IF hash \in Keys(d) THEN AppendTo(d, hash, filename)
    ELSE IF hash \in DOMAIN c THEN NewGroup(c, d, hash, filename)
    ELSE d

\* yield x, filename, and the body of  for hash, filename in hasher(...)
Group ==
    /\ pc = "yield"
    /\ candidates' = GroupCandidates(candidates, duplicates, x, files[i])
    /\ duplicates' = GroupDuplicates(candidates, duplicates, x, files[i])
    /\ i' = i + 1
    /\ pc' = "for"
    /\ UNCHANGED <<fsVars, pass, dups, result, walkVars, files, scansize, handles, pos, xx, x>>

\* hasher is exhausted: return duplicates
DuplicatesReturn ==
    /\ pc = "for"
    /\ i > Len(files)
    /\ dups' = duplicates
    /\ pc' = "returned"
    /\ UNCHANGED <<fsVars, pass, result, walkVars, files, scansize, hashVars, groupVars>>

\* ------------------------------------------------------------------ as functions
\* the whole-file branch of hasher: the chunks of one file, fed in turn
RECURSIVE HashBlocks(_, _, _)
HashBlocks(content, p, h) ==
    LET byte_block == Read(content, p, BlockSize)
    IN  IF byte_block = <<>> THEN h
        ELSE HashBlocks(content, p + Len(byte_block), Sha256Update(h, byte_block))

\* the digest hasher yields for one readable file
Digest(filename, size) ==
    IF size # 0 THEN Hexdigest(sha256(Read(fsContent[filename], 0, size)))
    ELSE Hexdigest(HashBlocks(fsContent[filename], 0, Sha256New))

\* the loop of duplicates() over readable files, from bookkeeping c, d
RECURSIVE GroupAll(_, _, _, _)
GroupAll(fs, size, c, d) ==
    IF fs = <<>> THEN d
    ELSE LET hash == Digest(Head(fs), size)
         IN  GroupAll(Tail(fs), size,
                      GroupCandidates(c, d, hash, Head(fs)),
                      GroupDuplicates(c, d, hash, Head(fs)))

\* duplicates(*fs, scansize=size, hashfunc=sha256)
DuplicatesOf(fs, size) == GroupAll(fs, size, EmptyDict, <<>>)

\* ------------------------------------------------------------------ dupfinder
\* a variant whose third pass reads a prefix too
PassScansizePrefix(n) == IF n = 1 THEN SCANSIZE ELSE pass2size

\* the scansize of each pass: SCANSIZE, 100*SCANSIZE, 0
PassScansize(n) == IF n = 1 THEN SCANSIZE ELSE IF n = 2 THEN pass2size ELSE 0

\* a variant that gives every pass the whole enumeration
NextFilesAll(d) == yielded

\* the files of the next pass: the members of the groups of the last one
NextFiles(d) == Flatten(d)

\* entering duplicates(*files, scansize=..., hashfunc=sha256)
Call(n, fs) ==
    /\ pass' = n
    /\ files' = fs
    /\ scansize' = PassScansize(n)
    /\ candidates' = EmptyDict
    /\ duplicates' = <<>>
    /\ i' = 1
    /\ pc' = "for"

\* filewalker is exhausted by *files; first pass
FirstPass ==
    /\ pc = "walk"
    /\ walkStack = <<>>
    /\ Call(1, yielded)
    /\ UNCHANGED <<fsVars, dups, result, walkVars, handles, pos, xx, x>>

SecondPass ==
    /\ pc = "returned"
    /\ pass = 1
    /\ Call(2, NextFiles(dups))
    /\ UNCHANGED <<fsVars, dups, result, walkVars, handles, pos, xx, x>>

ThirdPass ==
    /\ pc = "returned"
    /\ pass = 2
    /\ Call(3, NextFiles(dups))
    /\ UNCHANGED <<fsVars, dups, result, walkVars, handles, pos, xx, x>>

\* return dups
Return ==
    /\ pc = "returned"
    /\ pass = 3
    /\ result' = dups
    /\ pc' = "done"
    /\ UNCHANGED <<fsVars, pass, dups, walkVars, files, scansize, hashVars, groupVars>>

\* dupfinder() over the enumeration  enum,  every file readable
DupfinderOf(enum) ==
    LET first  == DuplicatesOf(enum, PassScansize(1))
        second == DuplicatesOf(NextFiles(first), PassScansize(2))
    IN  DuplicatesOf(NextFiles(second), PassScansize(3))

\* ------------------------------------------------------------------ runs
\* the run is at  at  and has called nothing yet, but for the arguments given
Fresh(at, args, size) ==
    /\ pc = at
    /\ pass = 0
    /\ dups = <<>>
    /\ result = <<>>
    /\ walkStack = <<>>
    /\ yielded = <<>>
    /\ files = args
    /\ scansize = size
    /\ i = 1
    /\ handles = {}
    /\ pos = 0
    /\ xx = Sha256New
    /\ x = Sha256New
    /\ candidates = EmptyDict
    /\ duplicates = <<>>

Idle == Fresh("start", <<>>, 0)

\* one directory "." that holds the regular files  names  and nothing else
FlatDir(names) ==
    /\ path = <<".">>
    /\ exclude = {}
    /\ fsDirs = [d \in {path} |-> [subdirs |-> {}, files |-> Range(names)]]
    /\ fsRegular = {Join(path, names[k]) : k \in DOMAIN names}

ThreeFiles == << <<"a">>, <<"b">>, <<"c">> >>

FourFiles == << <<"a">>, <<"b">>, <<"c">>, <<"d">> >>

\* Three files of any contents and any two prefix lengths.  The directory is
\* listed in every order, so contents are given to the names up to a
\* renaming of the files: in the order of their digests.
InitAny ==
    /\ FlatDir(ThreeFiles)
    /\ fsContent \in [fsRegular -> Contents]
    /\ \A k, l \in DOMAIN ThreeFiles :
          k < l => sha256(fsContent[Join(path, ThreeFiles[k])])
                      <= sha256(fsContent[Join(path, ThreeFiles[l])])
    /\ SCANSIZE \in 1..MaxScan
    /\ pass2size \in 1..MaxScan
    /\ Idle

\* Four files: a and b equal and two blocks long, c equal to them on the
\* first block only, d different from the first byte on.
InitScenario ==
    /\ FlatDir(FourFiles)
    /\ fsContent = [f \in fsRegular |->
                      IF f = Join(path, <<"c">>) THEN <<0, 1>>
                      ELSE IF f = Join(path, <<"d">>) THEN <<1>>
                      ELSE <<0, 0>>]
    /\ SCANSIZE = 1
    /\ pass2size \in 1..MaxScan
    /\ Idle

Init == InitAny \/ InitScenario

\* A direct call  duplicates(*files, scansize=..., hashfunc=sha256):  any
\* argument list over three files, a path possibly more than once, the files
\* one or two bytes long and equal on the first byte.
InitDuplicates ==
    /\ FlatDir(ThreeFiles)
    /\ fsContent \in [fsRegular -> {<<0>>, <<0, 1>>}]
    /\ SCANSIZE = 1
    /\ pass2size = 1
    /\ \E args \in SeqsUpTo(fsRegular, MaxIn), size \in 0..MaxScan :
          Fresh("for", args, size)

\* A direct call  filewalker(path, exclude):  any tree of at most MaxDirs
\* directories below the root "r", every directory holding a regular file
\* "f", the root also an entry "p" that is no regular file.
DirNames == {"a", "b"}

ExclStrings == {<<>>, <<"a">>, <<"b">>, <<"a", "/", "b">>, <<"r">>, <<"f">>}

RECURSIVE Trees(_)
Trees(n) ==
    IF n = 0 THEN {{}}
    ELSE LET smaller == Trees(n - 1)
         IN  smaller \cup {T \cup {Append(r, name)} :
                              T \in smaller, r \in {<<>>} \cup UNION smaller, name \in DirNames}

RECURSIVE DirPath(_, _)
DirPath(root, rel) ==
    IF rel = <<>> THEN root
    ELSE Join(DirPath(root, SubSeq(rel, 1, Len(rel) - 1)), <<rel[Len(rel)]>>)

WellFormed(T) == \A r \in T : Len(r) > 1 => SubSeq(r, 1, Len(r) - 1) \in T

InitWalk ==
    /\ path = <<"r">>
    /\ exclude \in {E \in SUBSET ExclStrings : Cardinality(E) <= 2}
    /\ \E T \in {U \in Trees(MaxDirs) : WellFormed(U)} :
          LET rels == T \cup {<<>>}
              relOf(d) == CHOOSE r \in rels : DirPath(path, r) = d
          IN  /\ fsDirs = [d \in {DirPath(path, r) : r \in rels} |->
                             [subdirs |-> {<<name>> : name \in
                                              {n \in DirNames : Append(relOf(d), n) \in T}},
                              files   |-> IF d = path THEN {<<"f">>, <<"p">>} ELSE {<<"f">>}]]
              /\ fsRegular = {Join(DirPath(path, r), <<"f">>) : r \in rels}
    /\ fsContent = [f \in fsRegular |-> <<>>]
    /\ SCANSIZE = 1
    /\ pass2size = 1
    /\ Idle

NextDuplicates ==
    \/ HasherOpen
    \/ HasherOpenFails
    \/ HasherReadPrefix
    \/ HasherNewHash
    \/ HasherReadBlock
    \/ HasherLastBlock
    \/ HasherReadFails
    \/ HasherClose
    \/ Group
    \/ DuplicatesReturn

Next ==
    \/ FilewalkerStart
    \/ FilewalkerDir
    \/ FirstPass
    \/ SecondPass
    \/ ThirdPass
    \/ Return
    \/ NextDuplicates

NextWalk ==
    \/ FilewalkerStart
    \/ FilewalkerDir

Spec == Init /\ [][Next]_vars

SpecDuplicates == InitDuplicates /\ [][NextDuplicates]_vars

SpecWalk == InitWalk /\ [][NextWalk]_vars

\* ------------------------------------------------------------------ properties
SameContent(p, q) == fsContent[p] = fsContent[q]

\* the groups of a mapping that hold path p
GroupsWith(d, p) == {k \in DOMAIN d : p \in Range(d[k].files)}

Members(d) == UNION {Range(d[k].files) : k \in DOMAIN d}

\* p and q are in one group of d, and in no other
Together(d, p, q) ==
    /\ GroupsWith(d, p) = GroupsWith(d, q)
    /\ Cardinality(GroupsWith(d, p)) = 1

\* a mapping as what it groups: digest and set of paths
Membership(d) == {<<d[k].hash, Range(d[k].files)>> : k \in DOMAIN d}

\* the first n bytes of s, or all of s when it is shorter
Take(s, n) == SubSeq(s, 1, Min(n, Len(s)))

Prefix(f) == Take(fsContent[f], SCANSIZE)

\* C1: No false negatives.  Whenever a pass of the pipeline has returned
\* (no read having failed), and at the end of the run, any two enumerated
\* files of byte-identical content are in one and the same group of that
\* pass's mapping and in no other, whatever the two prefix lengths.
C1_NoFalseNegatives ==
    pc \in {"returned", "done"} =>
        \A p, q \in Range(yielded) :
            p # q /\ SameContent(p, q) =>
                Together(IF pc = "done" THEN result ELSE dups, p, q)

\* two equal files shorter than the first prefix length, in the final mapping
C1_Witness ==
    /\ pc = "done"
    /\ \E p, q \in Range(yielded) :
          /\ p # q
          /\ SameContent(p, q)
          /\ Len(fsContent[p]) > 0
          /\ Len(fsContent[p]) < SCANSIZE
          /\ Together(result, p, q)

\* C2: No false positives (the digest being collision-free, as sha256 is
\* here).  Every group of the final mapping holds only files of pairwise
\* byte-identical content, and when no two enumerated files are identical
\* the final mapping is empty.
C2_NoFalsePositives ==
    pc = "done" =>
        /\ \A k \in DOMAIN result :
              \A p, q \in Range(result[k].files) : SameContent(p, q)
        /\ (\A p, q \in Range(yielded) : p # q => ~SameContent(p, q)) => result = <<>>

\* a file agrees with the members of a final group on both prefixes and is
\* not in the group
C2_Witness ==
    /\ pc = "done"
    /\ \E k \in DOMAIN result : \E p \in Range(result[k].files) :
          \E q \in Range(yielded) \ Members(result) :
              /\ Prefix(p) = Prefix(q)
              /\ Take(fsContent[p], pass2size) = Take(fsContent[q], pass2size)

\* the four files of the scenario are the enumerated ones
Scenario == Range(yielded) = {Join(path, FourFiles[k]) : k \in DOMAIN FourFiles}

\* C4: A file that shares its first block (SCANSIZE bytes) with another
\* file and whose whole content equals no other file's is in a group of
\* the first pass and in no group of the final mapping.  In the scenario
\* (a = b, c equal to them on the first block, d different) the first pass
\* groups exactly {a, b, c} and the final mapping is the one group {a, b}.
C4_PrefixOnly ==
    /\ \A f \in Range(yielded) :
          (/\ \E g \in Range(yielded) \ {f} : Prefix(g) = Prefix(f)
           /\ \A g \in Range(yielded) \ {f} : ~SameContent(f, g))
          => /\ pc = "returned" /\ pass = 1 => GroupsWith(dups, f) # {}
             /\ pc = "done" => GroupsWith(result, f) = {}
    /\ Scenario =>
          LET P(n) == Join(path, <<n>>)
          IN  /\ pc = "returned" /\ pass = 1 =>
                    {Range(dups[k].files) : k \in DOMAIN dups} = {{P("a"), P("b"), P("c")}}
              /\ pc = "done" =>
                    /\ Len(result) = 1
                    /\ Range(result[1].files) = {P("a"), P("b")}
                    /\ Len(result[1].files) = 2

\* the scenario has run to its end
C4_Witness ==
    /\ pc = "done"
    /\ Scenario
    /\ Len(result) = 1

\* C5: The groups of the final mapping depend only on the files and their
\* contents: the run's mapping has the digests and, under each, the set of
\* paths that dupfinder gives on every order of the same enumeration.
C5_OrderIndependent ==
    pc = "done" =>
        \A order \in Perms(Range(yielded)) :
            Membership(DupfinderOf(order)) = Membership(result)

\* another order of the enumeration gives the same group in another order
C5_Witness ==
    /\ pc = "done"
    /\ result # <<>>
    /\ \E order \in Perms(Range(yielded)) : DupfinderOf(order) # result

Raised == pc \in {"open raised", "read raised"}

\* C3: Per-file recovery from read errors.  A failure to open or read one
\* file drops that file only: the run goes on and returns a mapping, so no
\* run ends in the exception of a failed open or read.
C3_ReadErrorRecovered == ~Raised

\* one step of a run keeps the order of the passes
C8_Step ==
    \* a pass starts after the one before it, the first on the enumeration
    /\ pass' # pass => pass' = pass + 1 /\ pc' = "for" /\ i' = 1
    /\ pass' = 1 /\ pass = 0 => files' = yielded
    \* a later pass starts when the one before it has returned, on the
    \* members of that pass's groups and on no other path
    /\ pass' # pass /\ pass >= 1 =>
          /\ pc = "returned"
          /\ files' = Flatten(dups)
          /\ Range(files') = Members(dups)
          /\ Range(files') \subseteq Range(files)
          /\ Range(files') \subseteq Range(yielded)
    \* a pass that has returned is followed by the next pass or by the return
    /\ pc = "returned" => pass' = pass + 1 \/ (pass = 3 /\ pc' = "done")
    \* an empty mapping leaves the next pass without files, and a pass
    \* without files returns the empty mapping
    /\ pc = "returned" /\ dups = <<>> /\ pass < 3 => files' = <<>>
    /\ pc' = "returned" /\ pc # "returned" /\ files = <<>> => dups' = <<>>
    \* the run ends after the third pass, with that pass's mapping
    /\ pc' = "done" /\ pc # "done" => pass = 3 /\ pc = "returned" /\ result' = dups
    /\ pc' = "returned" /\ pc # "returned" => dups' = duplicates

\* C8: Stage ordering.  The passes of a run start once each, in the order
\* 1, 2, 3; each later pass is given exactly the flattening of the mapping
\* the pass before it returned, so the paths only shrink; an empty mapping
\* makes every later mapping empty; the run returns the third mapping.
C8_StageOrder == [][C8_Step]_vars

\* a run has ended whose third pass saw fewer files than were enumerated
C8_Witness ==
    /\ pc = "done"
    /\ pass = 3
    /\ result # <<>>
    /\ Range(files) # Range(yielded)

\* C9: File-handle scoping in hasher.  At most one file is open at any
\* time, and it is the file being hashed; no file is open when the next
\* one is about to be opened, when a pair is handed to the grouper, when
\* a read or an open has failed, or when a pass or the run has ended.
C9_HandleScoped ==
    /\ Cardinality(handles) <= 1
    /\ handles # {} => pc \in {"opened", "chunks", "exit"} /\ handles = {files[i]}
    /\ pc \in {"start", "walk", "for", "yield", "returned", "done"} => handles = {}
    /\ Raised => handles = {}

\* a read failed in the middle of the whole-file read of a later file
C9_Witness ==
    /\ pc = "read raised"
    /\ scansize = 0
    /\ i > 1
    /\ pos > 0
    /\ pos < Len(fsContent[files[i]])
    /\ handles = {}

\* the input paths that carry digest h, in input order
Carrying(h) ==
    LET carries(f) == Digest(f, scansize) = h
    IN  SelectSeq(files, carries)

\* C6: Result of one grouping pass.  When duplicates() returns, a digest
\* is a key of the mapping exactly when two or more input pairs carry it,
\* it is a key once, and the list under it is the input paths carrying it,
\* in input order; so no input, or all digests distinct, gives no group.
C6_GroupingResult ==
    pc = "returned" =>
        LET digests == {Digest(files[k], scansize) : k \in DOMAIN files}
        IN  /\ Keys(dups) = {h \in digests : Len(Carrying(h)) >= 2}
            /\ \A k, l \in DOMAIN dups : dups[k].hash = dups[l].hash => k = l
            /\ \A k \in DOMAIN dups : dups[k].files = Carrying(dups[k].hash)
            /\ Cardinality(digests) = Len(files) => dups = <<>>

\* a pass has returned a group of three and has dropped a lone file
C6_Witness ==
    /\ pc = "returned"
    /\ \E k \in DOMAIN dups : Len(dups[k].files) >= 3
    /\ Range(files) # Members(dups)

\* the pairs the grouper has taken so far are those of files[1..i-1]
Processed == 1..(i - 1)

\* C10, as claimed: no digest is a key of both the candidate mapping and
\* the duplicate-group mapping, and no processed path is both the stored
\* candidate of its digest and a member of a group.
C10_Disjoint ==
    /\ Keys(duplicates) \cap DOMAIN candidates = {}
    /\ \A k \in Processed :
          LET h == Digest(files[k], scansize)
          IN  ~(/\ h \in DOMAIN candidates
                /\ candidates[h] = files[k]
                /\ GroupsWith(duplicates, files[k]) # {})

\* C10, amended: the candidate mapping keeps, for every digest seen, the
\* first path seen with it, also after a group was made for the digest:
\* every key of the group mapping is a key of the candidate mapping, whose
\* entry is the group's first member.  Every processed path is the stored
\* candidate of its digest or a member of exactly one group, and it is
\* both only as the first member of its group.
C10_CandidateKept ==
    /\ Keys(duplicates) \subseteq DOMAIN candidates
    /\ \A g \in DOMAIN duplicates :
          /\ candidates[duplicates[g].hash] = duplicates[g].files[1]
          /\ Len(duplicates[g].files) >= 2
    /\ \A k \in Processed :
          LET h == Digest(files[k], scansize)
              p == files[k]
          IN  /\ h \in DOMAIN candidates
              /\ candidates[h] = p \/ Cardinality(GroupsWith(duplicates, p)) = 1
              /\ Cardinality(GroupsWith(duplicates, p)) <= 1
              /\ \A g \in GroupsWith(duplicates, p) :
                    /\ duplicates[g].hash = h
                    /\ candidates[h] = p => duplicates[g].files[1] = p
              /\ GroupsWith(duplicates, p) = {} =>
                    \A l \in Processed : Digest(files[l], scansize) = h => l = k

\* a digest with a group of three is still a key of the candidate mapping
C10_Witness ==
    \E g \in DOMAIN duplicates :
        /\ Len(duplicates[g].files) >= 3
        /\ duplicates[g].hash \in DOMAIN candidates

\* d is anc or lies below it
Below(d, anc) ==
    \/ d = anc
    \/ /\ Len(d) > Len(anc)
       /\ SubSeq(d, 1, Len(anc)) = anc
       /\ d[Len(anc) + 1] = Sep

Matches(d) == \E e \in exclude : Contains(e, d)

Count(seq, e) == Cardinality({k \in DOMAIN seq : seq[k] = e})

WalkEnded == pc = "walk" /\ walkStack = <<>>

\* C7: Exclusion filter of filewalker.  No file is yielded from a
\* directory whose path, or the path of a directory above it, contains an
\* exclusion string; and once the walk has ended every regular file of a
\* directory whose path contains none has been yielded exactly once.
C7_ExclusionFilter ==
    /\ \A d \in DOMAIN fsDirs : \A f \in fsDirs[d].files :
          Count(yielded, Join(d, f)) > 0 =>
              \A anc \in DOMAIN fsDirs : Below(d, anc) => ~Matches(anc)
    /\ WalkEnded =>
          \A d \in DOMAIN fsDirs : ~Matches(d) =>
              \A f \in fsDirs[d].files :
                  Join(d, f) \in fsRegular => Count(yielded, Join(d, f)) = 1

\* the walk has ended, having yielded some files and none from a directory
\* that matches only through the directory above it
C7_Witness ==
    /\ WalkEnded
    /\ Len(yielded) >= 2
    /\ \E d \in DOMAIN fsDirs :
          /\ Matches(d)
          /\ \E anc \in DOMAIN fsDirs \ {d} : Below(d, anc) /\ Matches(anc)
          /\ \A e \in exclude : ~Contains(e, <<d[Len(d)]>>)
          /\ Count(yielded, Join(d, <<"f">>)) = 0

====
